---- MODULE Spec2Model ----
(***************************************************************************)
(* Model of src/ip.py: a CSV enrichment pipeline.  The main thread opens   *)
(* one PostgreSQL connection and cursor, creates a ThreadPoolExecutor,     *)
(* submits one process_row task per input row, collects the futures in     *)
(* submission order, writes the successful rows to the output CSV and      *)
(* closes the connection in a finally block.  The pool's worker threads    *)
(* run process_row concurrently; every execute_query is two separate       *)
(* calls on the one shared cursor (cursor.execute, then cursor.fetchone)   *)
(* with no lock around them.                                               *)
(***************************************************************************)
EXTENDS Integers, Sequences, FiniteSets, TLC

\* ------------------------------------------------------------------------
\* Bounds of the model
\* ------------------------------------------------------------------------
MaxRows == 2

MaxWorkers == 2

\* ------------------------------------------------------------------------
\* Values
\* ------------------------------------------------------------------------
\* Python's None: a missing dict key (row.get), a skipped lookup, or a
\* lookup that found no row.
None == "None"

\* Raised by the store for a query (StoreError); not a value.
ERR == "ERR"

\* The cursor holds the sequence of the rows not fetched yet, or this
\* marker when it holds no result set (psycopg2 "notuples"): fetchone then
\* raises ProgrammingError.
NoResult == <<"NoResult">>

\* The output file while nothing was written to it: a file that was
\* written starts with its header line.
NoFile == <<>>

\* A data row as DictReader yields it, reduced to the two fields that
\* process_row reads.  A field is missing (row.get gives None), empty, or
\* holds a key.  long says that the line had more values than the header
\* has names: DictReader then adds the key None (its default restkey) with
\* the list of the extra values.
Row(g, e) == [input_gid |-> g, input_eid |-> e, long |-> FALSE]

LongRow(g, e) == [input_gid |-> g, input_eid |-> e, long |-> TRUE]

\* The input rows considered: neither field present; both keys found; GID
\* key not found and input_eid missing; GID query fails; EID query fails
\* after the GID query succeeded; a long line with both fields empty.
Rows ==
    {Row(None, ""), Row("k1", "k1"), Row("k2", None), Row("bad", "k1"),
     Row("k1", "bad"), LongRow("", "")}

\* The two query templates name the two lookup kinds.
GID_QUERY == "GID_QUERY"

EID_QUERY == "EID_QUERY"

\* The deterministic store: for a query kind and a key, the rows of the
\* result set (first column only), or ERR when the store raises.
StoreRows(query, param) ==
    IF param = "bad" THEN ERR
    ELSE IF param = "k1"
         THEN (IF query = GID_QUERY THEN <<"g1">> ELSE <<"e1">>)
         ELSE <<>>

\* Python truthiness of a field value: None and "" are falsy.
Truthy(v) == v # None /\ v # ""

\* The row as process_row returns it: the input fields, then gid and eid.
\* idx is the identity of the row object (its position in the input).
Enriched(idx, row, gid, eid) ==
    [idx |-> idx, input_gid |-> row.input_gid, input_eid |-> row.input_eid,
     long |-> row.long, gid |-> gid, eid |-> eid]

\* A row to which process_row has assigned neither gid nor eid.
NoRow ==
    [idx |-> 0, input_gid |-> None, input_eid |-> None, long |-> FALSE,
     gid |-> None, eid |-> None]

\* The key DictReader files the extra values of a long line under.
RestKey == "restkey"

\* The keys of a returned row in insertion order: the header's names, the
\* restkey of a long line, then gid and eid.
Fields(rec) ==
    <<"input_gid", "input_eid">>
        \o (IF rec.long THEN <<RestKey>> ELSE <<>>)
        \o <<"gid", "eid">>

\* The text the csv writer puts in a column for a row: "" for None and for
\* a key the row does not have (DictWriter's restval).
FieldText(rec, key) ==
    IF key = RestKey THEN (IF rec.long THEN "extra" ELSE "")
    ELSE IF rec[key] = None THEN "" ELSE rec[key]

Line(rec, fieldnames) ==
    [c \in 1..Len(fieldnames) |-> FieldText(rec, fieldnames[c])]

\* DictWriter (extrasaction='raise') refuses a row that has a key outside
\* fieldnames.
Refused(rec, fieldnames) ==
    \E c \in 1..Len(Fields(rec)) :
        \A d \in 1..Len(fieldnames) : fieldnames[d] # Fields(rec)[c]

\* Number of rows of data that writerows writes before it meets a refused
\* row (all of them when none is refused).
Written(data, fieldnames) ==
    IF \E k \in 1..Len(data) : Refused(data[k], fieldnames)
    THEN (CHOOSE k \in 1..Len(data) :
             /\ Refused(data[k], fieldnames)
             /\ \A j \in 1..(k - 1) : ~Refused(data[j], fieldnames)) - 1
    ELSE Len(data)

\* The file after writeheader and writerows: the header line, then one line
\* per written row.
FileLines(data, fieldnames) ==
    <<fieldnames>> \o [k \in 1..Written(data, fieldnames) |->
                         Line(data[k], fieldnames)]

\* ------------------------------------------------------------------------
\* State
\* ------------------------------------------------------------------------
VARIABLES
    MAX_WORKERS,   \* configured pool size (module constant of a run)
    input,         \* the data rows of the input CSV file
    pc,            \* position of the main thread
    error,         \* exception propagating out of the main thread, or None
    connected,     \* the store connection has been opened
    closeCount,    \* number of db.close() calls
    cursor,        \* result set held by the shared cursor, or NoResult
    tasks,         \* submitted futures/tasks in submission order
    nextFuture,    \* index of the next future the collect loop waits for
    results,       \* process_data's results list
    reported,      \* indexes of the rows whose failure was printed
    sinkCalls,     \* sequence of the arguments of write_rows calls
    fileRows,      \* lines of the output file (header first), or NoFile
    completeMsg    \* "Processing complete" was printed

vars == <<MAX_WORKERS, input, pc, error, connected, closeCount, cursor,
          tasks, nextFuture, results, reported, sinkCalls, fileRows,
          completeMsg>>

\* Sequences over S of length 0..n
SeqUpTo(S, n) == UNION {[1..k -> S] : k \in 0..n}

\* A task (future + the row it was submitted with).  st is the position of
\* the task: "queued", then the positions inside process_row, then "done".
\* idx is the identity of the row object (its position in the input); nGid
\* and nEid count the cursor.execute calls made for the row, raised records
\* that an execute_query call of the task raised, ok that process_row
\* returned, out the row with the gid and eid keys process_row assigned
\* (NoRow while it has assigned none), rank the task's place in the order
\* of completion (0 while it is not done).
NewTask(idx, row) ==
    [idx |-> idx, st |-> "queued", row |-> row, gid |-> None, eid |-> None,
     nGid |-> 0, nEid |-> 0, raised |-> FALSE, ok |-> FALSE,
     out |-> NoRow, rank |-> 0]

Running(t) == t.st \in {"gid", "gid_fetch", "eid", "eid_fetch"}

NumRunning == Cardinality({i \in 1..Len(tasks) : Running(tasks[i])})

InLookup(t) == t.st \in {"gid_fetch", "eid_fetch"}

AllDone == \A i \in 1..Len(tasks) : tasks[i].st = "done"

DoneCount == Cardinality({i \in 1..Len(tasks) : tasks[i].st = "done"})

Init ==
    /\ MAX_WORKERS \in (0 - 1)..MaxWorkers
    /\ input \in SeqUpTo(Rows, MaxRows)
    /\ pc = "connect"
    /\ error = None
    /\ connected = FALSE
    /\ closeCount = 0
    /\ cursor = NoResult
    /\ tasks = <<>>
    /\ nextFuture = 1
    /\ results = <<>>
    /\ reported = <<>>
    /\ sinkCalls = <<>>
    /\ fileRows = NoFile
    /\ completeMsg = FALSE

\* ------------------------------------------------------------------------
\* Main thread
\* ------------------------------------------------------------------------
\* PostgreSQLDatabase.__init__: psycopg2.connect and conn.cursor().  A
\* failure here is raised before the try block is entered.
Connect ==
    /\ pc = "connect"
    /\ \/ /\ connected' = TRUE
          /\ pc' = "pool"
          /\ error' = error
       \/ /\ connected' = FALSE
          /\ pc' = "exit"
          /\ error' = "ConnectError"
    /\ UNCHANGED <<MAX_WORKERS, input, closeCount, cursor, tasks, nextFuture,
                   results, reported, sinkCalls, fileRows, completeMsg>>

\* ThreadPoolExecutor(max_workers=MAX_WORKERS): raises ValueError when
\* max_workers <= 0; the exception leaves process_data for the finally.
\* Variant: no validation of the worker count.
PoolAccepts_Any(w) == TRUE

PoolAccepts(w) == w > 0

CreateExecutor ==
    /\ pc = "pool"
    /\ IF PoolAccepts(MAX_WORKERS)
       THEN pc' = "read" /\ error' = error
       ELSE pc' = "finally" /\ error' = "ValueError"
    /\ UNCHANGED <<MAX_WORKERS, input, connected, closeCount, cursor, tasks,
                   nextFuture, results, reported, sinkCalls, fileRows,
                   completeMsg>>

\* One iteration of the dict comprehension: the generator yields the next
\* row and executor.submit queues a task for it.
SubmitRow ==
    /\ pc = "read"
    /\ Len(tasks) < Len(input)
    /\ tasks' = Append(tasks, NewTask(Len(tasks) + 1, input[Len(tasks) + 1]))
    /\ UNCHANGED <<MAX_WORKERS, input, pc, error, connected, closeCount,
                   cursor, nextFuture, results, reported, sinkCalls,
                   fileRows, completeMsg>>

\* The generator is exhausted: the comprehension ends and the collect loop
\* starts.
EndOfInput ==
    /\ pc = "read"
    /\ Len(tasks) = Len(input)
    /\ pc' = "collect"
    /\ UNCHANGED <<MAX_WORKERS, input, error, connected, closeCount, cursor,
                   tasks, nextFuture, results, reported, sinkCalls, fileRows,
                   completeMsg>>

\* The reader raises (open() fails on the first next(), or a decode error
\* later): the exception leaves the with block, whose exit waits for the
\* submitted tasks.
\* open() runs on the first next() of the generator, before any row is
\* yielded: a failure with no row read yet is the failure to open the file.
SourceErrorAt(nRead) == IF nRead = 0 THEN "OpenError" ELSE "SourceError"

ReadError ==
    /\ pc = "read"
    /\ pc' = "shutdown"
    /\ error' = SourceErrorAt(Len(tasks))
    /\ UNCHANGED <<MAX_WORKERS, input, connected, closeCount, cursor, tasks,
                   nextFuture, results, reported, sinkCalls, fileRows,
                   completeMsg>>

\* What the collect loop does with a finished future: append the returned
\* row to results, or print the error.
\* Variant: the row of a failed future is appended as well.
CollectResults_All(t) ==
    Append(results, IF t.ok THEN t.out ELSE Enriched(t.idx, t.row, None, None))

\* Variant: new results are put in front.
CollectResults_Prepend(t) == IF t.ok THEN <<t.out>> \o results ELSE results

CollectResults(t) == IF t.ok THEN Append(results, t.out) ELSE results

\* Variant: the except clause swallows the error without a report.
CollectReported_Silent(t, i) == reported

CollectReported(t, i) == IF t.ok THEN reported ELSE Append(reported, i)

\* One iteration of "for future in future_to_row": future.result() blocks
\* until the task is done.
Collect ==
    /\ pc = "collect"
    /\ nextFuture <= Len(tasks)
    /\ tasks[nextFuture].st = "done"
    /\ results' = CollectResults(tasks[nextFuture])
    /\ reported' = CollectReported(tasks[nextFuture], nextFuture)
    /\ nextFuture' = nextFuture + 1
    /\ UNCHANGED <<MAX_WORKERS, input, pc, error, connected, closeCount,
                   cursor, tasks, sinkCalls, fileRows, completeMsg>>

\* The for loop ends when every future of future_to_row was visited.
\* Variant: the loop stops one future early.
CollectDone_Early(n, len) == n >= len

CollectDone(n, len) == n > len

CollectEnd ==
    /\ pc = "collect"
    /\ CollectDone(nextFuture, Len(tasks))
    /\ pc' = "shutdown"
    /\ UNCHANGED <<MAX_WORKERS, input, error, connected, closeCount, cursor,
                   tasks, nextFuture, results, reported, sinkCalls, fileRows,
                   completeMsg>>

\* Exit of the with block: executor.shutdown(wait=True) joins the worker
\* threads, which first drain the queue.
\* Variant: shutdown(wait=False).
ShutdownReady_NoWait == TRUE

ShutdownReady == AllDone

\* After the with block: on to write_rows, unless an exception is
\* propagating out of process_data.
\* Variant: the exception is swallowed and the results are written anyway.
AfterShutdown_Swallow(err) == "write"

AfterShutdown(err) == IF err = None THEN "write" ELSE "finally"

Shutdown ==
    /\ pc = "shutdown"
    /\ ShutdownReady
    /\ pc' = AfterShutdown(error)
    /\ UNCHANGED <<MAX_WORKERS, input, error, connected, closeCount, cursor,
                   tasks, nextFuture, results, reported, sinkCalls, fileRows,
                   completeMsg>>

\* CSVFileWriter.write_rows: nothing is opened or written for an empty
\* list; otherwise the file is opened (which may fail), the header is taken
\* from the keys of the first row, and the rows are written in order until
\* one is refused.
\* Variant: no early return for an empty list.
SinkWrites_Always(data) == TRUE

SinkWrites(data) == data # <<>>

WriteRows ==
    /\ pc = "write"
    /\ sinkCalls' = Append(sinkCalls, results)
    /\ IF ~SinkWrites(results)
       THEN /\ fileRows' = fileRows
            /\ pc' = "report"
            /\ error' = error
       ELSE \/ /\ results # <<>>
               /\ fileRows' = FileLines(results, Fields(results[1]))
               /\ IF Written(results, Fields(results[1])) = Len(results)
                  THEN pc' = "report" /\ error' = error
                  ELSE pc' = "finally" /\ error' = "SchemaError"
            \/ /\ fileRows' = fileRows
               /\ pc' = "finally"
               /\ error' = "WriteError"
    /\ UNCHANGED <<MAX_WORKERS, input, connected, closeCount, cursor, tasks,
                   nextFuture, results, reported, completeMsg>>

\* What the completion message tells the user: the output path and nothing
\* else.
OUTPUT_CSV_FILE == "output.csv"

CompletionReport == [output |-> OUTPUT_CSV_FILE]

\* print("Processing complete. ...")
ReportComplete ==
    /\ pc = "report"
    /\ completeMsg' = TRUE
    /\ pc' = "finally"
    /\ UNCHANGED <<MAX_WORKERS, input, error, connected, closeCount, cursor,
                   tasks, nextFuture, results, reported, sinkCalls, fileRows>>

\* finally: db_instance.close()
\* Variant: close() after the print instead of in a finally clause.
ClosesOn_SuccessOnly(err) == err = None

ClosesOn(err) == TRUE

Close ==
    /\ pc = "finally"
    /\ closeCount' = IF ClosesOn(error) THEN closeCount + 1 ELSE closeCount
    /\ pc' = "exit"
    /\ UNCHANGED <<MAX_WORKERS, input, error, connected, cursor, tasks,
                   nextFuture, results, reported, sinkCalls, fileRows,
                   completeMsg>>

\* ------------------------------------------------------------------------
\* The store cursor (psycopg2) as execute_query uses it
\* ------------------------------------------------------------------------
\* cursor.execute(query, (param,)): the cursor is reset and, unless the
\* store raises, holds the new result set.
CursorAfterExecute(query, param) ==
    IF StoreRows(query, param) = ERR THEN NoResult
    ELSE StoreRows(query, param)

ExecuteRaises(query, param) == StoreRows(query, param) = ERR

\* cursor.fetchone() followed by "result[0] if result else None".
FetchRaises(cur) == cur = NoResult

FetchValue(cur) == IF cur = <<>> THEN None ELSE Head(cur)

CursorAfterFetch(cur) == IF cur = <<>> THEN <<>> ELSE Tail(cur)

\* execute_query run without interruption: the value returned, or ERR when
\* it raises.
execute_query(query, param) ==
    IF ExecuteRaises(query, param) THEN ERR
    ELSE IF FetchRaises(CursorAfterExecute(query, param)) THEN ERR
    ELSE FetchValue(CursorAfterExecute(query, param))

\* process_row run without interruption: whether a lookup raises, and the
\* row returned when none does.
process_row_raises(row) ==
    \/ Truthy(row.input_gid) /\ execute_query(GID_QUERY, row.input_gid) = ERR
    \/ Truthy(row.input_eid) /\ execute_query(EID_QUERY, row.input_eid) = ERR

process_row(idx, row) ==
    LET gid == IF Truthy(row.input_gid)
               THEN execute_query(GID_QUERY, row.input_gid) ELSE None
        eid == IF Truthy(row.input_eid)
               THEN execute_query(EID_QUERY, row.input_eid) ELSE None
    IN  Enriched(idx, row, gid, eid)

\* ------------------------------------------------------------------------
\* Worker threads of the pool
\* ------------------------------------------------------------------------
\* Each worker action is one access to shared state (the work queue or the
\* cursor) together with the thread-local code of process_row that follows
\* it, up to the next access.

\* The task's exception is stored in its future; the row is left as it was.
\* Variant: row['gid'] is assigned right after the GID lookup, so a row
\* whose EID lookup raises keeps it.
Failed_Partial(t) ==
    [t EXCEPT !.st = "done", !.raised = TRUE, !.ok = FALSE,
              !.rank = DoneCount + 1,
              !.out = Enriched(t.idx, t.row, t.gid, None)]

Failed(t) ==
    [t EXCEPT !.st = "done", !.raised = TRUE, !.ok = FALSE,
              !.rank = DoneCount + 1]

\* process_row assigns row['gid'], row['eid'] and returns the row.
Returned(t, gid, eid) ==
    [t EXCEPT !.st = "done", !.gid = gid, !.eid = eid, !.ok = TRUE,
              !.rank = DoneCount + 1,
              !.out = Enriched(t.idx, t.row, gid, eid)]

\* The conditional expressions of process_row decide whether a query is
\* sent at all.
WantsGid(row) == Truthy(row.input_gid)

\* Variant: "is not None" instead of truthiness.
WantsEid_NotNone(row) == row.input_eid # None

WantsEid(row) == Truthy(row.input_eid)

\* Line 125 once gid is known: on to the EID query, or eid = None and the
\* rest of process_row.
AfterGid(t, gid) ==
    IF WantsEid(t.row) THEN [t EXCEPT !.gid = gid, !.st = "eid"]
    ELSE Returned(t, gid, None)

\* Lines 120-124 up to the GID query, or gid = None when it is skipped.
Entered(t) ==
    IF WantsGid(t.row) THEN [t EXCEPT !.st = "gid"] ELSE AfterGid(t, None)

\* A worker thread exists for at most max_workers tasks at a time; the
\* work queue is first in, first out.

\* Variant: one thread too many.
CanStart_OffByOne(running, w) == running <= w

\* Variant: one thread too few.
CanStart_OneShort(running, w) == running < w - 1

CanStart(running, w) == running < w

\* A worker thread takes the task from the queue and enters process_row.
StartTask(i) ==
    /\ i \in 1..Len(tasks)
    /\ tasks[i].st = "queued"
    /\ \A j \in 1..(i - 1) : tasks[j].st # "queued"
    /\ CanStart(NumRunning, MAX_WORKERS)
    /\ tasks' = [tasks EXCEPT ![i] = Entered(@)]
    /\ UNCHANGED <<MAX_WORKERS, input, pc, error, connected, closeCount,
                   cursor, nextFuture, results, reported, sinkCalls,
                   fileRows, completeMsg>>

\* cursor.execute of the GID query.
GidExecute(i) ==
    /\ i \in 1..Len(tasks)
    /\ tasks[i].st = "gid"
    /\ cursor' = CursorAfterExecute(GID_QUERY, tasks[i].row.input_gid)
    /\ tasks' = [tasks EXCEPT ![i] =
         IF ExecuteRaises(GID_QUERY, tasks[i].row.input_gid)
         THEN Failed([@ EXCEPT !.nGid = @ + 1])
         ELSE [@ EXCEPT !.nGid = @ + 1, !.st = "gid_fetch"]]
    /\ UNCHANGED <<MAX_WORKERS, input, pc, error, connected, closeCount,
                   nextFuture, results, reported, sinkCalls, fileRows,
                   completeMsg>>

\* cursor.fetchone of the GID query and the return of execute_query.
GidFetch(i) ==
    /\ i \in 1..Len(tasks)
    /\ tasks[i].st = "gid_fetch"
    /\ IF FetchRaises(cursor)
       THEN /\ cursor' = cursor
            /\ tasks' = [tasks EXCEPT ![i] = Failed(@)]
       ELSE /\ cursor' = CursorAfterFetch(cursor)
            /\ tasks' = [tasks EXCEPT ![i] = AfterGid(@, FetchValue(cursor))]
    /\ UNCHANGED <<MAX_WORKERS, input, pc, error, connected, closeCount,
                   nextFuture, results, reported, sinkCalls, fileRows,
                   completeMsg>>

\* cursor.execute of the EID query.
EidExecute(i) ==
    /\ i \in 1..Len(tasks)
    /\ tasks[i].st = "eid"
    /\ cursor' = CursorAfterExecute(EID_QUERY, tasks[i].row.input_eid)
    /\ tasks' = [tasks EXCEPT ![i] =
         IF ExecuteRaises(EID_QUERY, tasks[i].row.input_eid)
         THEN Failed([@ EXCEPT !.nEid = @ + 1])
         ELSE [@ EXCEPT !.nEid = @ + 1, !.st = "eid_fetch"]]
    /\ UNCHANGED <<MAX_WORKERS, input, pc, error, connected, closeCount,
                   nextFuture, results, reported, sinkCalls, fileRows,
                   completeMsg>>

\* cursor.fetchone of the EID query, then lines 128-130.
EidFetch(i) ==
    /\ i \in 1..Len(tasks)
    /\ tasks[i].st = "eid_fetch"
    /\ IF FetchRaises(cursor)
       THEN /\ cursor' = cursor
            /\ tasks' = [tasks EXCEPT ![i] = Failed(@)]
       ELSE /\ cursor' = CursorAfterFetch(cursor)
            /\ tasks' = [tasks EXCEPT ![i] =
                            Returned(@, @.gid, FetchValue(cursor))]
    /\ UNCHANGED <<MAX_WORKERS, input, pc, error, connected, closeCount,
                   nextFuture, results, reported, sinkCalls, fileRows,
                   completeMsg>>

\* ------------------------------------------------------------------------
\* Specification
\* ------------------------------------------------------------------------
Next ==
    \/ Connect
    \/ CreateExecutor
    \/ SubmitRow
    \/ EndOfInput
    \/ ReadError
    \/ Collect
    \/ CollectEnd
    \/ Shutdown
    \/ WriteRows
    \/ ReportComplete
    \/ Close
    \/ \E i \in 1..MaxRows + 1 : StartTask(i)
    \/ \E i \in 1..MaxRows + 1 : GidExecute(i)
    \/ \E i \in 1..MaxRows + 1 : GidFetch(i)
    \/ \E i \in 1..MaxRows + 1 : EidExecute(i)
    \/ \E i \in 1..MaxRows + 1 : EidFetch(i)

Spec == Init /\ [][Next]_vars

\* The main thread and the worker threads are scheduled by the operating
\* system and every cursor call returns or raises: whenever some thread
\* can take a step, a step is eventually taken.
LiveSpec == Init /\ [][Next]_vars /\ WF_vars(Next)

\* ------------------------------------------------------------------------
\* Properties
\* ------------------------------------------------------------------------
\* The collect loop has run to its end (no exception left process_data
\* before or during it).
CollectFinished ==
    /\ pc \in {"shutdown", "write", "report", "finally", "exit"}
    /\ error \in {None, "WriteError", "SchemaError"}

\* Number of entries of results that are row i; number of failure reports
\* for row i.
SuccessCount(i) ==
    Cardinality({k \in 1..Len(results) : results[k].idx = i})

FailureCount(i) ==
    Cardinality({k \in 1..Len(reported) : reported[k] = i})

\* C1: once process_data has finished collecting, every input record has
\* exactly one outcome: it is once in the results list (the list handed to
\* the sink) or one failure was reported for it, never both, never neither;
\* so the successes and the failures add up to the number of input records.
C1_ExactlyOneOutcome ==
    CollectFinished =>
        /\ \A i \in 1..Len(input) : SuccessCount(i) + FailureCount(i) = 1
        /\ \A k \in 1..Len(results) : results[k].idx \in 1..Len(input)
        /\ \A k \in 1..Len(reported) : reported[k] \in 1..Len(input)
        /\ Len(results) + Len(reported) = Len(input)
        /\ \A c \in 1..Len(sinkCalls) : sinkCalls[c] = results

C1_Witness ==
    /\ CollectFinished
    /\ sinkCalls # <<>>
    /\ Len(input) = 2
    /\ Len(results) = 1
    /\ Len(reported) = 1

\* C2: a record for which a lookup call raised is never in the collection
\* passed to write_rows and its failure is reported exactly once; the
\* collection passed to the sink holds exactly the records whose lookup
\* calls all returned, each once, so it is no longer than the input.
C2_FailedExcluded ==
    /\ \A i \in 1..Len(tasks) :
          tasks[i].raised => SuccessCount(i) = 0 /\ FailureCount(i) <= 1
    /\ \A c \in 1..Len(sinkCalls) :
          /\ Len(sinkCalls[c]) <= Len(input)
          /\ \A i \in 1..Len(tasks) :
                LET n == Cardinality({k \in 1..Len(sinkCalls[c]) :
                                         sinkCalls[c][k].idx = i})
                IN  IF tasks[i].raised
                    THEN n = 0 /\ FailureCount(i) = 1
                    ELSE n = 1 /\ FailureCount(i) = 0

C2_Witness ==
    /\ Len(sinkCalls) = 1
    /\ Len(sinkCalls[1]) = 1
    /\ \E i \in 1..Len(tasks) :
          tasks[i].raised /\ tasks[i].nEid = 1 /\ FailureCount(i) = 1

\* The rows that process_row returns when every task runs alone (worker
\* count 1): the store's own answers on every row whose queries the store
\* answers.
SerialRecords ==
    {process_row(i, input[i]) :
        i \in {j \in 1..Len(input) : ~process_row_raises(input[j])}}

\* With one worker the run hands exactly those rows to the sink.
SingleWorkerIsSerial ==
    (MAX_WORKERS = 1 /\ sinkCalls # <<>>) =>
        {sinkCalls[1][k] : k \in 1..Len(sinkCalls[1])} = SerialRecords

\* C3: failure isolation: a lookup error in one record's task never fails a
\* sibling task: once collecting has finished, every record whose own
\* queries the store answers without error is in the results, whatever
\* happened to the other records.
C3_FailureIsolation ==
    CollectFinished =>
        \A i \in 1..Len(input) :
            ~process_row_raises(input[i]) => SuccessCount(i) = 1

\* C4: access to the shared cursor is serialized: at most one worker is
\* between its cursor.execute and its cursor.fetchone.
C4_SerializedLookups ==
    Cardinality({i \in 1..Len(tasks) : InLookup(tasks[i])}) <= 1

\* C5: for every worker count and every interleaving, the set of records
\* handed to the sink, with their gid and eid values, is the set a run with
\* one worker yields on the same input.
C5_WorkerCountIndependent ==
    \A c \in 1..Len(sinkCalls) :
        {sinkCalls[c][k] : k \in 1..Len(sinkCalls[c])} = SerialRecords

\* C6: no GID query is issued for a record whose input_gid is missing or
\* empty, no EID query for one whose input_eid is missing or empty, and the
\* output field is then None; a record that was enriched had a query issued
\* exactly for its non-empty fields; a record with both fields absent
\* succeeds with gid and eid None and no query at all.
C6_SkipWhenAbsent ==
    \A i \in 1..Len(tasks) :
        LET t == tasks[i] IN
        /\ ~Truthy(t.row.input_gid) =>
              t.nGid = 0 /\ (t.ok => t.out.gid = None)
        /\ ~Truthy(t.row.input_eid) =>
              t.nEid = 0 /\ (t.ok => t.out.eid = None)
        /\ t.ok => /\ (t.nGid = 1) = Truthy(t.row.input_gid)
                   /\ (t.nEid = 1) = Truthy(t.row.input_eid)
                   /\ t.nGid <= 1 /\ t.nEid <= 1
        /\ (t.st = "done" /\ ~Truthy(t.row.input_gid)
                          /\ ~Truthy(t.row.input_eid)) =>
              /\ t.ok /\ ~t.raised
              /\ t.out.gid = None /\ t.out.eid = None
              /\ t.nGid + t.nEid = 0

C6_Witness ==
    /\ sinkCalls # <<>>
    /\ \E i \in 1..Len(tasks) :
          /\ tasks[i].row = Row(None, "")
          /\ tasks[i].ok
          /\ \E k \in 1..Len(sinkCalls[1]) : sinkCalls[1][k] = tasks[i].out
    /\ \E i \in 1..Len(tasks) :
          tasks[i].row = Row("k2", None) /\ tasks[i].ok /\ tasks[i].nGid = 1

\* C7: once the connection was opened, close is called exactly once on
\* every exit path (normal completion, ValueError from the pool, source
\* error, sink error), never without a connection, and only when no task
\* is queued or running, so no lookup is in progress at or started after
\* the close.
C7_CloseOnceAfterLookups ==
    /\ closeCount <= 1
    /\ (pc = "exit" /\ connected) => closeCount = 1
    /\ ~connected => closeCount = 0
    /\ closeCount >= 1 => AllDone /\ pc = "exit"

C7_Witness ==
    /\ pc = "exit"
    /\ closeCount = 1
    /\ error = "SourceError"
    /\ Len(tasks) = 2
    /\ \E i \in 1..Len(tasks) : tasks[i].nGid = 1 /\ tasks[i].nEid = 1

\* C8: the number of tasks that have started process_row and not finished
\* never exceeds the worker limit, however many records are submitted.
C8_BoundedConcurrency ==
    IF MAX_WORKERS > 0 THEN NumRunning <= MAX_WORKERS ELSE NumRunning = 0

C8_Witness ==
    /\ MAX_WORKERS = 1
    /\ NumRunning = 1
    /\ \E i \in 1..Len(tasks) : tasks[i].st = "queued"

\* C9: with no data rows there is no task, no outcome and no query, and a
\* run that meets no other error still calls write_rows, once, with the
\* empty list; write_rows with an empty list writes nothing and raises
\* nothing.
C9_EmptyInput ==
    /\ input = <<>> =>
          /\ tasks = <<>> /\ results = <<>> /\ reported = <<>>
          /\ cursor = NoResult
          /\ (pc \in {"report", "finally", "exit"} /\ error = None) =>
                sinkCalls = << <<>> >>
          /\ (pc = "exit" /\ error = None) => completeMsg
    /\ (sinkCalls # <<>> /\ sinkCalls[1] = <<>>) =>
          /\ Len(sinkCalls) = 1
          /\ fileRows = NoFile
          /\ error = None

C9_Witness ==
    /\ input = <<>>
    /\ pc = "exit"
    /\ sinkCalls = << <<>> >>
    /\ fileRows = NoFile
    /\ completeMsg

\* C10: a worker count <= 0 is rejected at pool creation: no record is
\* read, no task is submitted, no query is issued, the sink is not called,
\* and process_data ends with the ValueError.
C10_RejectsNonPositiveWorkers ==
    MAX_WORKERS <= 0 =>
        /\ pc \in {"connect", "pool", "finally", "exit"}
        /\ tasks = <<>> /\ results = <<>> /\ reported = <<>>
        /\ cursor = NoResult
        /\ sinkCalls = <<>> /\ fileRows = NoFile /\ ~completeMsg
        /\ (pc \in {"finally", "exit"} /\ connected) => error = "ValueError"

C10_Witness ==
    /\ MAX_WORKERS <= 0
    /\ input # <<>>
    /\ pc = "exit"
    /\ error = "ValueError"

\* C11: a worker count <= 0 fails before any I/O of the run: when the
\* ValueError is raised no store connection has been opened, no input has
\* been read and no output has been written.
C11_ConfigErrorBeforeIO ==
    error = "ValueError" =>
        /\ ~connected
        /\ tasks = <<>>
        /\ sinkCalls = <<>> /\ fileRows = NoFile

\* Every failed task has had its failure printed.
AllFailuresReported ==
    \A i \in 1..Len(tasks) : ~tasks[i].ok => FailureCount(i) = 1

\* An error raised by write_rows.
SinkFailed == error \in {"WriteError", "SchemaError"}

\* C12: when write_rows raises, every submitted task has finished and every
\* failure has been printed; the error leaves process_data, so the
\* completion message is not printed, and the connection is still closed.
C12_SinkErrorAfterPipeline ==
    SinkFailed =>
        /\ Len(tasks) = Len(input) /\ AllDone
        /\ nextFuture = Len(tasks) + 1
        /\ AllFailuresReported
        /\ Len(sinkCalls) = 1
        /\ ~completeMsg
        /\ pc \in {"finally", "exit"}
        /\ pc = "exit" => closeCount = 1

C12_Witness ==
    /\ error = "WriteError"
    /\ pc = "exit"
    /\ closeCount = 1
    /\ Len(results) = 1
    /\ Len(reported) = 1

\* C13: when the source cannot be opened, the run is aborted before any
\* lookup: no task is submitted, no query is issued, write_rows is not
\* called, nothing is reported as complete, and the connection is closed.
C13_OpenErrorAborts ==
    error = "OpenError" =>
        /\ tasks = <<>> /\ results = <<>> /\ reported = <<>>
        /\ cursor = NoResult
        /\ sinkCalls = <<>> /\ fileRows = NoFile /\ ~completeMsg
        /\ pc \in {"shutdown", "finally", "exit"}
        /\ pc = "exit" => closeCount = 1

C13_Witness ==
    /\ error = "OpenError"
    /\ input # <<>>
    /\ pc = "exit"
    /\ closeCount = 1

\* C14: for a non-empty collection the sink takes the header from the
\* first record's keys (the input fields, then gid and eid), writes the
\* header and one line per record in the order given, None as an empty
\* field, and the write succeeds for every collection the pipeline hands
\* it, also when a later record's keys differ from the first record's.
C14_SinkWritesEveryCollection ==
    \A c \in 1..Len(sinkCalls) :
        (sinkCalls[c] # <<>> /\ error # "WriteError"
                             /\ pc \in {"report", "finally", "exit"}) =>
            /\ error = None
            /\ fileRows =
                  <<Fields(sinkCalls[c][1])>> \o
                  [k \in 1..Len(sinkCalls[c]) |->
                      Line(sinkCalls[c][k], Fields(sinkCalls[c][1]))]

\* C15: a completed run reports how many records succeeded and how many
\* failed, together with the output location.
C15_ReportsCounts ==
    /\ (pc = "exit" /\ error = None) => completeMsg
    /\ completeMsg =>
          /\ {"output", "succeeded", "failed"} \subseteq DOMAIN CompletionReport
          /\ CompletionReport.output = OUTPUT_CSV_FILE
          /\ CompletionReport.succeeded = Len(results)
          /\ CompletionReport.failed = Len(reported)

\* C16: every returned record carries the store's answers to its own
\* queries: gid is the first column of the first row of the GID query with
\* its input_gid (None for no row or a skipped query), eid likewise for the
\* EID query with its input_eid, for every interleaving of the workers.
C16_OwnAnswers ==
    \A i \in 1..Len(tasks) :
        tasks[i].ok => tasks[i].out = process_row(i, tasks[i].row)

\* C17: write_rows is called at most once, exactly once in a run that gets
\* past it, and only when every row was submitted, every task is done,
\* every future was collected and every failure printed; it receives the
\* whole results list in that one call.
C17_FanInBarrier ==
    /\ Len(sinkCalls) <= 1
    /\ sinkCalls # <<>> =>
          /\ Len(tasks) = Len(input) /\ AllDone
          /\ nextFuture = Len(tasks) + 1
          /\ AllFailuresReported
          /\ sinkCalls[1] = results
    /\ (pc = "report" \/ completeMsg) => Len(sinkCalls) = 1
    /\ pc \in {"connect", "pool", "read", "collect", "shutdown", "write"} =>
          sinkCalls = <<>>

C17_Witness ==
    /\ pc = "report"
    /\ Len(sinkCalls) = 1
    /\ Len(tasks) = 2
    /\ Len(reported) = 1
    /\ Len(sinkCalls[1]) = 1

\* C18: termination: with every lookup call returning or raising and the
\* threads scheduled fairly, the run eventually ends with every submitted
\* task finished and the connection closed, and, unless a fatal error came
\* before the sink, with write_rows called on all the input's outcomes.
C18_Terminates ==
    <>(/\ pc = "exit"
       /\ AllDone
       /\ connected => closeCount = 1
       /\ error \in {None, "WriteError", "SchemaError"} =>
             Len(sinkCalls) = 1 /\ Len(tasks) = Len(input))

C18_Witness ==
    /\ pc = "exit"
    /\ error = None
    /\ MAX_WORKERS = 1
    /\ Len(tasks) = 2
    /\ AllDone
    /\ Len(sinkCalls) = 1
    /\ closeCount = 1

\* C19: the successful records are handed to the sink in input order,
\* whatever order the tasks complete in.
C19_InputOrder ==
    \A c \in 1..Len(sinkCalls) :
        \A k, l \in 1..Len(sinkCalls[c]) :
            k < l => sinkCalls[c][k].idx < sinkCalls[c][l].idx

\* Both records succeed and the second one completed first.
C19_Witness ==
    /\ Len(sinkCalls) = 1
    /\ Len(sinkCalls[1]) = 2
    /\ tasks[2].rank < tasks[1].rank

\* C20, state part: a task issues at most one GID and one EID query, the
\* EID query only after the GID query it wanted; a task in which a query
\* raised is done, has returned nothing and has left its row without gid
\* and eid.
C20_AllOrNothing ==
    \A i \in 1..Len(tasks) :
        LET t == tasks[i] IN
        /\ t.nGid <= 1 /\ t.nEid <= 1
        /\ t.nEid = 1 =>
              /\ t.st \in {"eid_fetch", "done"}
              /\ WantsGid(t.row) => t.nGid = 1
        /\ t.raised =>
              /\ t.st = "done" /\ ~t.ok
              /\ t.out = NoRow
              /\ t.row = input[i]

\* C20, step part: the GID query comes first, a task whose GID query raises
\* has issued no EID query, and a task that is done issues no further query
\* and changes nothing.
C20_Step(i) ==
    /\ tasks'[i].nGid # tasks[i].nGid =>
          tasks[i].nGid = 0 /\ tasks[i].nEid = 0
    /\ tasks'[i].nEid # tasks[i].nEid =>
          tasks[i].nEid = 0 /\ ~tasks[i].raised
    /\ (tasks[i].st \in {"gid", "gid_fetch"} /\ tasks'[i].raised) =>
          tasks'[i].nEid = 0
    /\ tasks[i].st = "done" => tasks'[i] = tasks[i]

\* C20: within one record's task the lookups are sequenced and all or
\* nothing: at most one GID and one EID query, GID before EID, no EID query
\* once the GID query raised, and a record whose query raised is left
\* unchanged, never partially enriched.
C20_SequencedAllOrNothing ==
    /\ []C20_AllOrNothing
    /\ [][\A i \in 1..Len(tasks) : C20_Step(i)]_vars

\* A task whose EID query raised after its GID query had returned a value.
C20_Witness ==
    \E i \in 1..Len(tasks) :
        /\ tasks[i].raised
        /\ tasks[i].nGid = 1 /\ tasks[i].nEid = 1
        /\ tasks[i].gid = "g1"
        /\ tasks[i].out = NoRow

====
